---- MODULE Spec2Model ----
(***************************************************************************)
(* ScholaChain: the ScholaChainGovernance institution registry and the     *)
(* ScholaChain certificate registry (Solidity 0.8.28), modelled as one     *)
(* state machine.  Every external function is one action.  For each        *)
(* function an operator <name>Revert gives the reason with which a call    *)
(* reverts in the current state ("" when it does not): the requires of the *)
(* modifiers and of the body in source order, then the checked-arithmetic  *)
(* panic.  A reverted transaction leaves the contract storage and the      *)
(* event log untouched, so the action is then a stuttering step; lastTx is *)
(* the receipt of the last transaction that did not revert.                *)
(***************************************************************************)
EXTENDS Integers, Sequences, FiniteSets, TLC

VARIABLES
    institutions,        \* mapping(address => Institution)
    authorizedIssuers,   \* mapping(address => bool)
    superAdmin,          \* address
    totalInstitutions,   \* uint256
    activeIssuers,       \* uint256
    certificates,        \* Certificate[]; certificate id i is certificates[i + 1]
    totalCertificates,   \* uint256
    activeCertificates,  \* uint256
    lastTx,              \* receipt of the last successful transaction
    client,              \* the certificate service of one connected wallet account
    eventLog,            \* the events emitted so far, oldest first
    prepared             \* what the backend's last prepareCertificateIssuance returned

govVars  == <<institutions, authorizedIssuers, superAdmin, totalInstitutions, activeIssuers>>
certVars == <<certificates, totalCertificates, activeCertificates>>
\* the storage of both contracts and the event log
chainVars == <<govVars, certVars, lastTx>>
vars     == <<institutions, authorizedIssuers, superAdmin, totalInstitutions, activeIssuers,
              certificates, totalCertificates, activeCertificates, lastTx, client,
              eventLog, prepared>>

----------------------------------------------------------------------------
(* Bounds and input domains *)

\* the certificate array is explored up to this length
MaxCerts == 2
\* activeIssuers can drift upwards without limit; it is explored up to this value
MaxActiveIssuers == 2
\* the event log is explored up to this number of events
MaxLogLen == 5

ZeroAddress == "0x0"
Ministry    == "M"
Holder      == "H"
Outsider    == "B"
\* addresses that may be registered
Accounts    == {"M", "A"}
\* addresses that send transactions
Senders     == Accounts \cup {Outsider}
Addresses   == Senders \cup {ZeroAddress, Holder}
\* address arguments of governance calls
Targets     == Accounts \cup {ZeroAddress}

NONE        == "NONE"
ISSUER      == "ISSUER"
SUPER_ADMIN == "SUPER_ADMIN"
Role        == {NONE, ISSUER, SUPER_ADMIN}

Names       == {"", "Acme University"}
Reasons     == {"fraud investigation"}
Timestamps  == {1}

HashAA      == "0xaaaaaaaaaaaaaaaaaaaaaaaaaaaaaaaaaaaaaaaaaaaaaaaaaaaaaaaaaaaaaaaa"
HashBB      == "0xbbbbbbbbbbbbbbbbbbbbbbbbbbbbbbbbbbbbbbbbbbbbbbbbbbbbbbbbbbbbbbbb"
\* hashes submitted to issueCertificate: one well formed, one too short
DocHashes   == {HashAA, "0xAA"}
\* hashes submitted to verifyCertificate
QueryHashes == {HashAA, HashBB}
CIDs        == {"", "QmCid"}
CertTypes   == {"Bachelor"}
CertIds     == 0 .. MaxCerts

----------------------------------------------------------------------------
(* Transaction receipts *)

NoReturn == "none"

Receipt(op, sender, args, ret, events) ==
    [op |-> op, sender |-> sender, args |-> args, ret |-> ret, events |-> events]

\* variant: a counter update made before the failing check survives the failure
Reverted_keepsCounter ==
    /\ activeCertificates' = activeCertificates + 1
    /\ UNCHANGED <<govVars, certificates, totalCertificates, lastTx>>

\* a failed require (or a checked-arithmetic panic) reverts every state change
Reverted == UNCHANGED chainVars

PanicUnderflow == "Panic(0x11)"

----------------------------------------------------------------------------
(* CertificateService (frontend): state of a call of issueCertificateReal *)

\* the wallet account of the service and the certificate data it submits
ClientAccount == "A"
ClientData ==
    [documentHash |-> HashAA, ipfsCID |-> "QmCid", holderAddress |-> Holder,
     certificateType |-> "Bachelor"]

NoResult == [success |-> FALSE, error |-> "no call has returned"]

\* CertificateIssuanceResult
IssuanceSuccess(certificateId) == [success |-> TRUE, certificateId |-> certificateId]
IssuanceFailure(errorMessage) == [success |-> FALSE, error |-> errorMessage]

\* BlockchainService.prepareCertificateIssuance: the responses of the backend
NoPreparation == [success |-> FALSE, simulated |-> TRUE, message |-> "no call has returned"]
PreparationFailure(message) == [success |-> FALSE, simulated |-> TRUE, message |-> message]
PreparationSuccess(predictedCertificateId, requiredParameters) ==
    [success |-> TRUE, simulated |-> TRUE, certificateId |-> predictedCertificateId,
     requiredParameters |-> requiredParameters]

\* pc is the await at which the call stands; result is what the last call returned
ClientState(pc, predictedCertificateId, result) ==
    [pc |-> pc, predictedCertificateId |-> predictedCertificateId, result |-> result]

----------------------------------------------------------------------------
(* ScholaChainGovernance *)

EmptyInstitution ==
    [name |-> "", description |-> "", website |-> "", isActive |-> FALSE,
     registeredAt |-> 0, role |-> NONE]

InstitutionRegistered(a, name, role, by) ==
    [event |-> "InstitutionRegistered", institutionAddress |-> a, name |-> name,
     role |-> role, registeredBy |-> by]

InstitutionUpdated(a, name, previousRole, newRole) ==
    [event |-> "InstitutionUpdated", institutionAddress |-> a, name |-> name,
     previousRole |-> previousRole, newRole |-> newRole]

InstitutionStatusChanged(a, newStatus, by) ==
    [event |-> "InstitutionStatusChanged", institutionAddress |-> a,
     newStatus |-> newStatus, changedBy |-> by]

InstitutionRevoked(a, reason, by) ==
    [event |-> "InstitutionRevoked", institutionAddress |-> a, reason |-> reason,
     revokedBy |-> by]

SuperAdminTransferred(previousAdmin, newAdmin) ==
    [event |-> "SuperAdminTransferred", previousAdmin |-> previousAdmin,
     newAdmin |-> newAdmin]

\* modifier onlySuperAdmin
onlySuperAdmin(sender) == sender = superAdmin

\* view functions
canIssueCertificates(a) == authorizedIssuers[a] /\ institutions[a].isActive

getInstitutionRole(a) == institutions[a].role

isInstitutionActive(a) == institutions[a].isActive

isSuperAdmin(a) == institutions[a].role = SUPER_ADMIN /\ a = superAdmin

isInstitutionRevoked(a) == institutions[a].role # NONE /\ ~institutions[a].isActive

\* state after the constructors of both contracts
Init ==
    /\ institutions = [a \in Addresses |->
                         IF a = Ministry
                         THEN [name |-> "Ministry of Education",
                               description |-> "Governing body for educational certification",
                               website |-> "https://education.gov",
                               isActive |-> TRUE, registeredAt |-> 1, role |-> SUPER_ADMIN]
                         ELSE EmptyInstitution]
    /\ authorizedIssuers = [a \in Addresses |-> FALSE]
    /\ superAdmin = Ministry
    /\ totalInstitutions = 1
    /\ activeIssuers = 0
    /\ certificates = <<>>
    /\ totalCertificates = 0
    /\ activeCertificates = 0
    /\ lastTx = Receipt("constructor", "deployer", <<Ministry>>, NoReturn,
                        <<InstitutionRegistered(Ministry, "Ministry of Education",
                                                SUPER_ADMIN, "governance")>>)
    /\ client = ClientState("idle", 0, NoResult)
    /\ eventLog = <<InstitutionRegistered(Ministry, "Ministry of Education",
                                          SUPER_ADMIN, "governance")>>
    /\ prepared = NoPreparation

\* variant: an empty name is accepted
registerInstitutionRevert_nameOptional(sender, a, name, role) ==
    IF ~onlySuperAdmin(sender) THEN "ScholaChain: Only super admin"
    ELSE IF a = ZeroAddress THEN "ScholaChain: Invalid address"
    ELSE IF institutions[a].role # NONE THEN "ScholaChain: Already registered"
    ELSE IF role = NONE THEN "ScholaChain: Invalid role"
    ELSE ""

registerInstitutionRevert(sender, a, name, role) ==
    IF ~onlySuperAdmin(sender) THEN "ScholaChain: Only super admin"
    ELSE IF a = ZeroAddress THEN "ScholaChain: Invalid address"
    ELSE IF ~(Len(name) > 0) THEN "ScholaChain: Name required"
    ELSE IF institutions[a].role # NONE THEN "ScholaChain: Already registered"
    ELSE IF role = NONE THEN "ScholaChain: Invalid role"
    ELSE ""

registerInstitution(sender, a, name, description, website, role, now) ==
    IF registerInstitutionRevert(sender, a, name, role) # "" THEN Reverted
    ELSE
        /\ role = ISSUER => activeIssuers < MaxActiveIssuers
        /\ institutions' = [institutions EXCEPT ![a] =
                              [name |-> name, description |-> description, website |-> website,
                               isActive |-> TRUE, registeredAt |-> now, role |-> role]]
        /\ totalInstitutions' = totalInstitutions + 1
        /\ authorizedIssuers' = IF role = ISSUER
                                THEN [authorizedIssuers EXCEPT ![a] = TRUE]
                                ELSE authorizedIssuers
        /\ activeIssuers' = IF role = ISSUER THEN activeIssuers + 1 ELSE activeIssuers
        /\ lastTx' = Receipt("registerInstitution", sender, <<a, name, role>>, TRUE,
                             <<InstitutionRegistered(a, name, role, sender)>>)
        /\ UNCHANGED <<superAdmin, certVars>>

\* variant: the target's role is not examined
revokeInstitutionRevert_anyRole(sender, a) ==
    IF ~onlySuperAdmin(sender) THEN "ScholaChain: Only super admin"
    ELSE IF a = ZeroAddress THEN "ScholaChain: Invalid address"
    ELSE IF institutions[a].role = NONE THEN "ScholaChain: Institution not registered"
    ELSE IF ~institutions[a].isActive THEN "ScholaChain: Institution already inactive"
    ELSE IF activeIssuers = 0 THEN PanicUnderflow
    ELSE ""

revokeInstitutionRevert(sender, a) ==
    IF ~onlySuperAdmin(sender) THEN "ScholaChain: Only super admin"
    ELSE IF a = ZeroAddress THEN "ScholaChain: Invalid address"
    ELSE IF institutions[a].role = NONE THEN "ScholaChain: Institution not registered"
    ELSE IF ~institutions[a].isActive THEN "ScholaChain: Institution already inactive"
    ELSE IF institutions[a].role # ISSUER THEN "ScholaChain: Can only revoke issuers"
    ELSE IF activeIssuers = 0 THEN PanicUnderflow
    ELSE ""

\* variant: revoking an institution also revokes the certificates it issued
revokeInstitution_revokesCertificates(sender, a, reason) ==
    IF revokeInstitutionRevert(sender, a) # "" THEN Reverted
    ELSE
        /\ institutions' = [institutions EXCEPT ![a].isActive = FALSE]
        /\ authorizedIssuers' = [authorizedIssuers EXCEPT ![a] = FALSE]
        /\ activeIssuers' = activeIssuers - 1
        /\ certificates' = [i \in DOMAIN certificates |->
                              IF certificates[i].issuer = a
                              THEN [certificates[i] EXCEPT !.revoked = TRUE]
                              ELSE certificates[i]]
        /\ activeCertificates' =
              Cardinality({i \in DOMAIN certificates :
                             ~certificates[i].revoked /\ certificates[i].issuer # a})
        /\ lastTx' = Receipt("revokeInstitution", sender, <<a, reason>>, TRUE,
                             <<InstitutionStatusChanged(a, FALSE, sender),
                               InstitutionRevoked(a, reason, sender)>>)
        /\ UNCHANGED <<superAdmin, totalInstitutions, totalCertificates>>

revokeInstitution(sender, a, reason) ==
    IF revokeInstitutionRevert(sender, a) # "" THEN Reverted
    ELSE
        /\ institutions' = [institutions EXCEPT ![a].isActive = FALSE]
        /\ authorizedIssuers' = [authorizedIssuers EXCEPT ![a] = FALSE]
        /\ activeIssuers' = activeIssuers - 1
        /\ lastTx' = Receipt("revokeInstitution", sender, <<a, reason>>, TRUE,
                             <<InstitutionStatusChanged(a, FALSE, sender),
                               InstitutionRevoked(a, reason, sender)>>)
        /\ UNCHANGED <<superAdmin, totalInstitutions, certVars>>

reactivateInstitutionRevert(sender, a) ==
    IF ~onlySuperAdmin(sender) THEN "ScholaChain: Only super admin"
    ELSE IF a = ZeroAddress THEN "ScholaChain: Invalid address"
    ELSE IF institutions[a].role = NONE THEN "ScholaChain: Institution not registered"
    ELSE IF institutions[a].isActive THEN "ScholaChain: Institution already active"
    ELSE IF institutions[a].role # ISSUER THEN "ScholaChain: Can only reactivate issuers"
    ELSE ""

\* variant: the issuer is reactivated without being counted again
reactivateInstitution_notCounted(sender, a) ==
    IF reactivateInstitutionRevert(sender, a) # "" THEN Reverted
    ELSE
        /\ institutions' = [institutions EXCEPT ![a].isActive = TRUE]
        /\ authorizedIssuers' = [authorizedIssuers EXCEPT ![a] = TRUE]
        /\ lastTx' = Receipt("reactivateInstitution", sender, <<a>>, TRUE,
                             <<InstitutionStatusChanged(a, TRUE, sender)>>)
        /\ UNCHANGED <<superAdmin, totalInstitutions, activeIssuers, certVars>>

reactivateInstitution(sender, a) ==
    IF reactivateInstitutionRevert(sender, a) # "" THEN Reverted
    ELSE
        /\ activeIssuers < MaxActiveIssuers
        /\ institutions' = [institutions EXCEPT ![a].isActive = TRUE]
        /\ authorizedIssuers' = [authorizedIssuers EXCEPT ![a] = TRUE]
        /\ activeIssuers' = activeIssuers + 1
        /\ lastTx' = Receipt("reactivateInstitution", sender, <<a>>, TRUE,
                             <<InstitutionStatusChanged(a, TRUE, sender)>>)
        /\ UNCHANGED <<superAdmin, totalInstitutions, certVars>>

\* variant: the new role may be NONE
updateInstitutionRoleRevert_noneAllowed(sender, a, newRole) ==
    IF ~onlySuperAdmin(sender) THEN "ScholaChain: Only super admin"
    ELSE IF a = ZeroAddress THEN "ScholaChain: Invalid address"
    ELSE IF institutions[a].role = NONE THEN "ScholaChain: Not registered"
    ELSE IF /\ institutions[a].role = ISSUER /\ newRole # ISSUER
            /\ institutions[a].isActive /\ activeIssuers = 0 THEN PanicUnderflow
    ELSE ""

updateInstitutionRoleRevert(sender, a, newRole) ==
    IF ~onlySuperAdmin(sender) THEN "ScholaChain: Only super admin"
    ELSE IF a = ZeroAddress THEN "ScholaChain: Invalid address"
    ELSE IF institutions[a].role = NONE THEN "ScholaChain: Not registered"
    ELSE IF newRole = NONE THEN "ScholaChain: Invalid role"
    ELSE IF /\ institutions[a].role = ISSUER /\ newRole # ISSUER
            /\ institutions[a].isActive /\ activeIssuers = 0 THEN PanicUnderflow
    ELSE ""

updateInstitutionRole(sender, a, newRole) ==
    LET previousRole == institutions[a].role
        leaves == previousRole = ISSUER /\ newRole # ISSUER
        enters == previousRole # ISSUER /\ newRole = ISSUER
    IN
    IF updateInstitutionRoleRevert(sender, a, newRole) # "" THEN Reverted
    ELSE
        /\ enters /\ institutions[a].isActive => activeIssuers < MaxActiveIssuers
        /\ institutions' = [institutions EXCEPT ![a].role = newRole]
        /\ authorizedIssuers' = IF leaves THEN [authorizedIssuers EXCEPT ![a] = FALSE]
                                ELSE IF enters THEN [authorizedIssuers EXCEPT ![a] = TRUE]
                                ELSE authorizedIssuers
        /\ activeIssuers' = IF leaves /\ institutions[a].isActive THEN activeIssuers - 1
                            ELSE IF enters /\ institutions[a].isActive THEN activeIssuers + 1
                            ELSE activeIssuers
        /\ lastTx' = Receipt("updateInstitutionRole", sender, <<a, newRole>>, TRUE,
                             <<InstitutionUpdated(a, institutions[a].name, previousRole, newRole)>>)
        /\ UNCHANGED <<superAdmin, totalInstitutions, certVars>>

setInstitutionStatusRevert(sender, a, isActive) ==
    IF ~onlySuperAdmin(sender) THEN "ScholaChain: Only super admin"
    ELSE IF a = ZeroAddress THEN "ScholaChain: Invalid address"
    ELSE IF institutions[a].role = NONE THEN "ScholaChain: Not registered"
    ELSE IF institutions[a].isActive = isActive THEN "ScholaChain: Status unchanged"
    ELSE IF institutions[a].role = ISSUER /\ ~isActive /\ activeIssuers = 0 THEN PanicUnderflow
    ELSE ""

setInstitutionStatus(sender, a, isActive) ==
    IF setInstitutionStatusRevert(sender, a, isActive) # "" THEN Reverted
    ELSE
        /\ institutions[a].role = ISSUER /\ isActive => activeIssuers < MaxActiveIssuers
        /\ institutions' = [institutions EXCEPT ![a].isActive = isActive]
        /\ authorizedIssuers' = IF institutions[a].role = ISSUER
                                THEN [authorizedIssuers EXCEPT ![a] = isActive]
                                ELSE authorizedIssuers
        /\ activeIssuers' = IF institutions[a].role = ISSUER
                            THEN (IF isActive THEN activeIssuers + 1 ELSE activeIssuers - 1)
                            ELSE activeIssuers
        /\ lastTx' = Receipt("setInstitutionStatus", sender, <<a, isActive>>, TRUE,
                             <<InstitutionStatusChanged(a, isActive, sender)>>)
        /\ UNCHANGED <<superAdmin, totalInstitutions, certVars>>

\* variant: the target need not be registered
transferSuperAdminRevert_noRegisteredCheck(sender, newSuperAdmin) ==
    IF ~onlySuperAdmin(sender) THEN "ScholaChain: Only super admin"
    ELSE IF newSuperAdmin = ZeroAddress THEN "ScholaChain: Invalid address"
    ELSE IF newSuperAdmin = superAdmin THEN "ScholaChain: Same admin"
    ELSE ""

transferSuperAdminRevert(sender, newSuperAdmin) ==
    IF ~onlySuperAdmin(sender) THEN "ScholaChain: Only super admin"
    ELSE IF newSuperAdmin = ZeroAddress THEN "ScholaChain: Invalid address"
    ELSE IF institutions[newSuperAdmin].role = NONE THEN "ScholaChain: Not registered"
    ELSE IF newSuperAdmin = superAdmin THEN "ScholaChain: Same admin"
    ELSE ""

\* variant: the new admin keeps its issuer flag
transferIssuerFlags_keepNew(previousAdmin, newSuperAdmin) ==
    [authorizedIssuers EXCEPT ![previousAdmin] = TRUE]

\* the demoted admin is flagged as issuer, the new admin is not
transferIssuerFlags(previousAdmin, newSuperAdmin) ==
    [authorizedIssuers EXCEPT ![previousAdmin] = TRUE, ![newSuperAdmin] = FALSE]

transferSuperAdmin(sender, newSuperAdmin) ==
    LET previousAdmin == superAdmin IN
    IF transferSuperAdminRevert(sender, newSuperAdmin) # "" THEN Reverted
    ELSE
        /\ institutions' = [institutions EXCEPT ![previousAdmin].role = ISSUER,
                                                ![newSuperAdmin].role = SUPER_ADMIN]
        /\ authorizedIssuers' = transferIssuerFlags(previousAdmin, newSuperAdmin)
        /\ superAdmin' = newSuperAdmin
        /\ lastTx' = Receipt("transferSuperAdmin", sender, <<newSuperAdmin>>, TRUE,
                             <<InstitutionUpdated(previousAdmin, institutions[previousAdmin].name,
                                                  SUPER_ADMIN, ISSUER),
                               InstitutionUpdated(newSuperAdmin, institutions[newSuperAdmin].name,
                                                  ISSUER, SUPER_ADMIN),
                               SuperAdminTransferred(previousAdmin, newSuperAdmin)>>)
        /\ UNCHANGED <<totalInstitutions, activeIssuers, certVars>>

----------------------------------------------------------------------------
(* ScholaChain (certificate registry) *)

CertificateIssued(id, issuer, holder, documentHash, ipfsCID, issuedAt) ==
    [event |-> "CertificateIssued", certificateId |-> id, issuer |-> issuer,
     holder |-> holder, documentHash |-> documentHash, ipfsCID |-> ipfsCID,
     issuedAt |-> issuedAt]

CertificateRevoked(id, by, revokedAt) ==
    [event |-> "CertificateRevoked", certificateId |-> id, revokedBy |-> by,
     revokedAt |-> revokedAt]

\* variant: reads the issuer flag without the activity check
_isAuthorizedIssuer_flagOnly(a) == authorizedIssuers[a]

\* governance.canIssueCertificates through the contract reference; the call
\* cannot fail because governanceContract is the deployed governance contract
_isAuthorizedIssuer(a) == canIssueCertificates(a)

\* variant: compares with the super-admin pointer only, as onlySuperAdmin does
_isSuperAdmin_pointerOnly(a) == a = superAdmin

_isSuperAdmin(a) == isSuperAdmin(a)

\* modifier certificateExists
certificateExists(id) == id < Len(certificates)

getTotalCertificates == Len(certificates)

isIssuerAuthorized(a) == _isAuthorizedIssuer(a)

\* variant: no onlyAuthorizedIssuer modifier, the caller's earlier check is trusted
issueCertificateRevert_noAuthorization(sender, documentHash, ipfsCID, holder) ==
    IF Len(documentHash) # 66 THEN "ScholaChain: Invalid document hash"
    ELSE IF ~(Len(ipfsCID) > 0) THEN "ScholaChain: IPFS CID required"
    ELSE IF holder = ZeroAddress THEN "ScholaChain: Invalid holder address"
    ELSE IF holder = sender THEN "ScholaChain: Cannot issue to self"
    ELSE ""

\* variant: a document hash can be registered only once
issueCertificateRevert_uniqueHash(sender, documentHash, ipfsCID, holder) ==
    IF ~_isAuthorizedIssuer(sender) THEN "ScholaChain: Not authorized issuer"
    ELSE IF Len(documentHash) # 66 THEN "ScholaChain: Invalid document hash"
    ELSE IF ~(Len(ipfsCID) > 0) THEN "ScholaChain: IPFS CID required"
    ELSE IF holder = ZeroAddress THEN "ScholaChain: Invalid holder address"
    ELSE IF holder = sender THEN "ScholaChain: Cannot issue to self"
    ELSE IF \E i \in DOMAIN certificates : certificates[i].documentHash = documentHash
         THEN "ScholaChain: Document already certified"
    ELSE ""

issueCertificateRevert(sender, documentHash, ipfsCID, holder) ==
    IF ~_isAuthorizedIssuer(sender) THEN "ScholaChain: Not authorized issuer"
    ELSE IF Len(documentHash) # 66 THEN "ScholaChain: Invalid document hash"
    ELSE IF ~(Len(ipfsCID) > 0) THEN "ScholaChain: IPFS CID required"
    ELSE IF holder = ZeroAddress THEN "ScholaChain: Invalid holder address"
    ELSE IF holder = sender THEN "ScholaChain: Cannot issue to self"
    ELSE ""

\* variant: writes the last slot instead of growing the array
pushCertificate_overwriteLast(newCertificate) ==
    IF Len(certificates) = 0 THEN <<newCertificate>>
    ELSE [certificates EXCEPT ![Len(certificates)] = newCertificate]

\* variant: the new certificate takes slot 0 and the others move up
pushCertificate_prepend(newCertificate) == <<newCertificate>> \o certificates

\* certificates.push(newCertificate)
pushCertificate(newCertificate) == Append(certificates, newCertificate)

issueCertificate(sender, documentHash, ipfsCID, holder, certificateType, now) ==
    IF issueCertificateRevert(sender, documentHash, ipfsCID, holder) # "" THEN Reverted
    ELSE
        LET newCertificate == [documentHash |-> documentHash, ipfsCID |-> ipfsCID,
                               issuer |-> sender, holder |-> holder, issuedAt |-> now,
                               revoked |-> FALSE, certificateType |-> certificateType]
        IN
        /\ Len(certificates) < MaxCerts
        /\ certificates' = pushCertificate(newCertificate)
        /\ totalCertificates' = totalCertificates + 1
        /\ activeCertificates' = activeCertificates + 1
        /\ LET certificateId == Len(certificates') - 1 IN
           lastTx' = Receipt("issueCertificate", sender,
                             <<documentHash, ipfsCID, holder, certificateType>>, certificateId,
                             <<CertificateIssued(certificateId, sender, holder, documentHash,
                                                 ipfsCID, now)>>)
        /\ UNCHANGED govVars

\* variant: the revoked flag is not examined
revokeCertificateRevert_noRevokedCheck(sender, id) ==
    IF ~certificateExists(id) THEN "ScholaChain: Certificate does not exist"
    ELSE IF ~(sender = certificates[id + 1].issuer \/ _isSuperAdmin(sender))
         THEN "ScholaChain: Only issuer or super admin can revoke"
    ELSE IF activeCertificates = 0 THEN PanicUnderflow
    ELSE ""

\* variant: an issuer may revoke its certificates only while it is authorized to issue
revokeCertificateRevert_issuerMustBeAuthorized(sender, id) ==
    IF ~certificateExists(id) THEN "ScholaChain: Certificate does not exist"
    ELSE IF ~((sender = certificates[id + 1].issuer /\ _isAuthorizedIssuer(sender))
               \/ _isSuperAdmin(sender))
         THEN "ScholaChain: Only issuer or super admin can revoke"
    ELSE IF certificates[id + 1].revoked THEN "ScholaChain: Certificate already revoked"
    ELSE IF activeCertificates = 0 THEN PanicUnderflow
    ELSE ""

revokeCertificateRevert(sender, id) ==
    IF ~certificateExists(id) THEN "ScholaChain: Certificate does not exist"
    ELSE IF ~(sender = certificates[id + 1].issuer \/ _isSuperAdmin(sender))
         THEN "ScholaChain: Only issuer or super admin can revoke"
    ELSE IF certificates[id + 1].revoked THEN "ScholaChain: Certificate already revoked"
    ELSE IF activeCertificates = 0 THEN PanicUnderflow
    ELSE ""

\* variant: the flag is set on a memory copy and never reaches storage
setRevoked_memoryCopy(id) == certificates

\* variant: rewrites the flags so that only the requested certificate is revoked
setRevoked_onlyThis(id) ==
    [i \in DOMAIN certificates |-> [certificates[i] EXCEPT !.revoked = (i = id + 1)]]

\* certificate.revoked = true, through the storage reference
setRevoked(id) == [certificates EXCEPT ![id + 1].revoked = TRUE]

revokeCertificate(sender, id, now) ==
    IF revokeCertificateRevert(sender, id) # "" THEN Reverted
    ELSE
        /\ certificates' = setRevoked(id)
        /\ activeCertificates' = activeCertificates - 1
        /\ lastTx' = Receipt("revokeCertificate", sender, <<id>>, NoReturn,
                             <<CertificateRevoked(id, sender, now)>>)
        /\ UNCHANGED <<govVars, totalCertificates>>

\* variant: a certificate is valid only while its issuer may still issue
verifyCertificate_checksIssuer(id, documentHash) ==
    IF ~certificateExists(id) THEN [err |-> "ScholaChain: Certificate does not exist"]
    ELSE LET certificate == certificates[id + 1] IN
         [err |-> "",
          isValid |-> /\ certificate.documentHash = documentHash
                      /\ ~certificate.revoked
                      /\ _isAuthorizedIssuer(certificate.issuer),
          issuer |-> certificate.issuer, holder |-> certificate.holder,
          isRevoked |-> certificate.revoked]

\* variant: validity is the hash comparison alone
verifyCertificate_ignoresRevoked(id, documentHash) ==
    IF ~certificateExists(id) THEN [err |-> "ScholaChain: Certificate does not exist"]
    ELSE LET certificate == certificates[id + 1] IN
         [err |-> "",
          isValid |-> certificate.documentHash = documentHash,
          issuer |-> certificate.issuer, holder |-> certificate.holder,
          isRevoked |-> certificate.revoked]

\* verifyCertificate: (isValid, issuer, holder, isRevoked), or the revert reason
verifyCertificate(id, documentHash) ==
    IF ~certificateExists(id) THEN [err |-> "ScholaChain: Certificate does not exist"]
    ELSE LET certificate == certificates[id + 1] IN
         [err |-> "",
          isValid |-> certificate.documentHash = documentHash /\ ~certificate.revoked,
          issuer |-> certificate.issuer, holder |-> certificate.holder,
          isRevoked |-> certificate.revoked]

getCertificate(id) ==
    IF ~certificateExists(id) THEN [err |-> "ScholaChain: Certificate does not exist"]
    ELSE [err |-> "", certificate |-> certificates[id + 1]]

----------------------------------------------------------------------------
(* CertificateService.issueCertificateReal: three awaits, each one step *)

\* Step 1: governanceContract.canIssueCertificates(account)
issueCertificateReal_checkAuthorization ==
    /\ client.pc = "idle"
    /\ client' = IF canIssueCertificates(ClientAccount)
                 THEN ClientState("authorized", 0, NoResult)
                 ELSE ClientState("idle", 0,
                         IssuanceFailure("Your account is not authorized to issue certificates."))
    /\ UNCHANGED <<chainVars, eventLog, prepared>>

\* this.getCertificateCount(): getTotalCertificates of the main contract
getCertificateCount == getTotalCertificates

\* Step 2: the current certificate count, kept as the predicted id
issueCertificateReal_readCount ==
    /\ client.pc = "authorized"
    /\ client' = ClientState("counted", getCertificateCount, NoResult)
    /\ UNCHANGED <<chainVars, eventLog, prepared>>

\* what the call returns once the transaction was sent: the revert reason of a
\* failed transaction, else the id of the CertificateIssued event in the receipt
issuanceResult(reason, receipt) ==
    IF reason # "" THEN IssuanceFailure("Contract error: " \o reason)
    ELSE IssuanceSuccess(receipt.events[1].certificateId)

\* Step 2 (continued): scholachainContract.issueCertificate(...) and transaction.wait()
issueCertificateReal_sendTransaction(now) ==
    /\ client.pc = "counted"
    /\ issueCertificate(ClientAccount, ClientData.documentHash, ClientData.ipfsCID,
                        ClientData.holderAddress, ClientData.certificateType, now)
    /\ client' = ClientState("idle", 0,
                    issuanceResult(issueCertificateRevert(ClientAccount, ClientData.documentHash,
                                                          ClientData.ipfsCID,
                                                          ClientData.holderAddress),
                                   lastTx'))
    \* the request the backend prepared, if any, has now been submitted
    /\ prepared' = NoPreparation
    /\ UNCHANGED eventLog

----------------------------------------------------------------------------
(* BlockchainService.prepareCertificateIssuance (backend): validates the     *)
(* request and predicts the id from the current value of totalCertificates   *)

prepareCertificateIssuance(data) ==
    IF data.ipfsCID = "" THEN PreparationFailure("Preparation failed: IPFS CID is required")
    ELSE PreparationSuccess(totalCertificates, data)

\* the backend answers a request for the data the client will submit
prepareCertificateIssuanceCall ==
    /\ prepared' = prepareCertificateIssuance(ClientData)
    /\ UNCHANGED <<chainVars, client, eventLog>>

----------------------------------------------------------------------------
(* Service-layer super-admin checks (backend AdminService, frontend          *)
(* GovernanceService).  Addresses are compared case-insensitively in the     *)
(* code; the model's addresses are already normalized.                       *)

\* contractLoader.getMinistryAddress() / contractConfigs.network.ministryOfEducation:
\* the address the deployment script wrote to the configuration
ConfiguredMinistry == Ministry

\* AdminService.fallbackMinistryCheck
fallbackMinistryCheck(address) == address = ConfiguredMinistry

\* AdminService.isMinistryOfEducation(address); ready is isReady && publicClient
AdminService_isMinistryOfEducation(address, ready) ==
    IF ~ready THEN fallbackMinistryCheck(address)
    ELSE IF address = ConfiguredMinistry THEN TRUE
    ELSE isSuperAdmin(address)

\* GovernanceService.isMinistryOfEducation() for the connected account
GovernanceService_isMinistryOfEducation(account) ==
    IF account = ConfiguredMinistry THEN TRUE
    ELSE IF account = superAdmin THEN TRUE
    ELSE isSuperAdmin(account)

----------------------------------------------------------------------------
(* Specification: any account submits any transaction, one at a time.  The   *)
(* outsider is never the super admin, so its governance calls always revert *)
(* and are left out of Next; the Revert operators still cover them.         *)

\* a transaction sent directly to a contract; the certificate service is not involved
registerInstitutionTx ==
    \E s \in Accounts, a \in Targets, n \in Names, r \in Role, t \in Timestamps :
       /\ registerInstitution(s, a, n, "description", "https://example.edu", r, t)
       /\ UNCHANGED <<client, eventLog, prepared>>

revokeInstitutionTx ==
    \E s \in Accounts, a \in Targets, r \in Reasons :
       revokeInstitution(s, a, r) /\ UNCHANGED <<client, eventLog, prepared>>

reactivateInstitutionTx ==
    \E s \in Accounts, a \in Targets :
       reactivateInstitution(s, a) /\ UNCHANGED <<client, eventLog, prepared>>

updateInstitutionRoleTx ==
    \E s \in Accounts, a \in Targets, r \in Role :
       updateInstitutionRole(s, a, r) /\ UNCHANGED <<client, eventLog, prepared>>

setInstitutionStatusTx ==
    \E s \in Accounts, a \in Targets, b \in BOOLEAN :
       setInstitutionStatus(s, a, b) /\ UNCHANGED <<client, eventLog, prepared>>

transferSuperAdminTx ==
    \E s \in Accounts, a \in Targets :
       transferSuperAdmin(s, a) /\ UNCHANGED <<client, eventLog, prepared>>

issueCertificateTx ==
    \E s \in Senders, h \in DocHashes, c \in CIDs, ty \in CertTypes, t \in Timestamps :
       \E to \in {ZeroAddress, Holder, s} :
          issueCertificate(s, h, c, to, ty, t) /\ UNCHANGED <<client, eventLog, prepared>>

revokeCertificateTx ==
    \E s \in Senders, id \in CertIds, t \in Timestamps :
       revokeCertificate(s, id, t) /\ UNCHANGED <<client, eventLog, prepared>>

\* the two contracts alone; the certificate service stays idle
Next ==
    \/ registerInstitutionTx
    \/ revokeInstitutionTx
    \/ reactivateInstitutionTx
    \/ updateInstitutionRoleTx
    \/ setInstitutionStatusTx
    \/ transferSuperAdminTx
    \/ issueCertificateTx
    \/ revokeCertificateTx

Spec == Init /\ [][Next]_vars

\* the contracts with the certificate service of ClientAccount: certificates are
\* issued through the service, every other transaction is sent directly
NextClient ==
    \/ registerInstitutionTx
    \/ revokeInstitutionTx
    \/ reactivateInstitutionTx
    \/ updateInstitutionRoleTx
    \/ setInstitutionStatusTx
    \/ transferSuperAdminTx
    \/ revokeCertificateTx
    \/ issueCertificateReal_checkAuthorization
    \/ issueCertificateReal_readCount
    \/ \E t \in Timestamps : issueCertificateReal_sendTransaction(t)

SpecClient == Init /\ [][NextClient]_vars

\* an issuer other than ClientAccount sends issueCertificate directly, for a
\* document of its own
issueCertificateOtherTx ==
    \E s \in Senders \ {ClientAccount}, ty \in CertTypes, t \in Timestamps :
       issueCertificate(s, HashBB, "QmCid", Holder, ty, t)
          /\ UNCHANGED <<client, eventLog, prepared>>

\* the backend prepares the issuance, the service of ClientAccount sends it,
\* and other accounts keep sending their own transactions
NextPrepare ==
    \/ registerInstitutionTx
    \/ revokeInstitutionTx
    \/ reactivateInstitutionTx
    \/ updateInstitutionRoleTx
    \/ setInstitutionStatusTx
    \/ transferSuperAdminTx
    \/ revokeCertificateTx
    \/ issueCertificateReal_checkAuthorization
    \/ issueCertificateReal_readCount
    \/ \E t \in Timestamps : issueCertificateReal_sendTransaction(t)
    \/ issueCertificateOtherTx
    \/ prepareCertificateIssuanceCall

SpecPrepare == Init /\ [][NextPrepare]_vars

\* variant: the log keeps only the events of the latest transaction
emit_latestOnly(events) == events

\* emit: the events of a transaction are appended to the log in emission order
emit(events) == eventLog \o events

\* the log after a transaction that reverted with the given reason ("" if it
\* did not): its events are appended, a reverted transaction leaves no event
logged(reason) ==
    /\ eventLog' = IF reason = "" THEN emit(lastTx'.events) ELSE eventLog
    /\ Len(eventLog') <= MaxLogLen
    /\ UNCHANGED <<client, prepared>>

registerInstitutionLogged ==
    \E s \in Accounts, a \in Targets, n \in Names, r \in Role, t \in Timestamps :
       /\ registerInstitution(s, a, n, "description", "https://example.edu", r, t)
       /\ logged(registerInstitutionRevert(s, a, n, r))

revokeInstitutionLogged ==
    \E s \in Accounts, a \in Targets, r \in Reasons :
       revokeInstitution(s, a, r) /\ logged(revokeInstitutionRevert(s, a))

reactivateInstitutionLogged ==
    \E s \in Accounts, a \in Targets :
       reactivateInstitution(s, a) /\ logged(reactivateInstitutionRevert(s, a))

updateInstitutionRoleLogged ==
    \E s \in Accounts, a \in Targets, r \in Role :
       updateInstitutionRole(s, a, r) /\ logged(updateInstitutionRoleRevert(s, a, r))

setInstitutionStatusLogged ==
    \E s \in Accounts, a \in Targets, b \in BOOLEAN :
       setInstitutionStatus(s, a, b) /\ logged(setInstitutionStatusRevert(s, a, b))

transferSuperAdminLogged ==
    \E s \in Accounts, a \in Targets :
       transferSuperAdmin(s, a) /\ logged(transferSuperAdminRevert(s, a))

issueCertificateLogged ==
    \E s \in Senders, h \in DocHashes, c \in CIDs, ty \in CertTypes, t \in Timestamps :
       \E to \in {ZeroAddress, Holder, s} :
          issueCertificate(s, h, c, to, ty, t) /\ logged(issueCertificateRevert(s, h, c, to))

revokeCertificateLogged ==
    \E s \in Senders, id \in CertIds, t \in Timestamps :
       revokeCertificate(s, id, t) /\ logged(revokeCertificateRevert(s, id))

\* the two contracts with the log of the events they emit
NextLog ==
    \/ registerInstitutionLogged
    \/ revokeInstitutionLogged
    \/ reactivateInstitutionLogged
    \/ updateInstitutionRoleLogged
    \/ setInstitutionStatusLogged
    \/ transferSuperAdminLogged
    \/ issueCertificateLogged
    \/ revokeCertificateLogged

SpecLog == Init /\ [][NextLog]_vars

----------------------------------------------------------------------------
(* Properties *)

GovernanceOps == {"registerInstitution", "revokeInstitution", "reactivateInstitution",
                  "updateInstitutionRole", "setInstitutionStatus", "transferSuperAdmin"}

SuperAdmins   == {a \in Addresses : institutions[a].role = SUPER_ADMIN}

ActiveIssuerSet == {a \in Addresses : institutions[a].role = ISSUER /\ institutions[a].isActive}

ActiveCertIds == {i \in 0 .. Len(certificates) - 1 : ~certificates[i + 1].revoked}

\* a step that mined a successful transaction of one of the given functions
Mined(ops) == lastTx' # lastTx /\ lastTx'.op \in ops

\* C1: in every reachable state exactly one address has role SUPER_ADMIN and
\* that address is the superAdmin pointer.
C1_ExactlyOneSuperAdmin == SuperAdmins = {superAdmin}

\* C2: in every reachable state activeIssuers equals the number of
\* institutions with role ISSUER and isActive = true.
C2_ActiveIssuersCount == activeIssuers = Cardinality(ActiveIssuerSet)

\* C3: canIssue(a) holds exactly when an issue call from a with well-formed
\* arguments (66-character hash, non-empty contentRef, non-zero holder other
\* than a) does not revert in the same state, and every successful issue was
\* sent by an address for which canIssue held.
C3_CanIssueIffIssueSucceeds ==
    /\ \A s \in Senders, h \in {HashAA, HashBB}, c \in CIDs \ {""} :
          \A to \in Addresses \ {ZeroAddress, s} :
             canIssueCertificates(s) <=> issueCertificateRevert(s, h, c, to) = ""
    /\ \A s \in Senders, h \in DocHashes, c \in CIDs, to \in Addresses :
          issueCertificateRevert(s, h, c, to) = "" => canIssueCertificates(s)

C3_Witness ==
    /\ lastTx.op = "issueCertificate"
    /\ canIssueCertificates(lastTx.sender)
    /\ \E s \in Accounts : institutions[s].role # NONE /\ ~canIssueCertificates(s)

C5_RevokedIsPermanent ==
    [][\A i \in DOMAIN certificates :
          certificates[i].revoked =>
              i \in DOMAIN certificates' /\ certificates'[i].revoked]_vars

C5_Witness ==
    /\ Len(certificates) = 2
    /\ certificates[1].revoked
    /\ certificates[2].revoked
    /\ lastTx.op = "revokeCertificate"
    /\ lastTx.args = <<1>>

\* C6: the certificate ids are exactly 0 .. totalCertificates - 1: the counter
\* equals the length of the certificate sequence, a successful issue returns
\* the id of the slot it filled (the previous length), every step that changes
\* the length is a successful issue that appends one slot, and no existing id
\* is given to another certificate.
C6_SequentialIds ==
    /\ [](/\ totalCertificates = Len(certificates)
          /\ getTotalCertificates = totalCertificates
          /\ lastTx.op = "issueCertificate" =>
                /\ lastTx.ret = totalCertificates - 1
                /\ lastTx.events[1].certificateId = lastTx.ret
                /\ certificates[lastTx.ret + 1].issuer = lastTx.sender
                /\ certificates[lastTx.ret + 1].documentHash = lastTx.args[1])
    /\ [][/\ Len(certificates') # Len(certificates) =>
                /\ Mined({"issueCertificate"})
                /\ Len(certificates') = Len(certificates) + 1
                /\ lastTx'.ret = Len(certificates)
          /\ Mined({"issueCertificate"}) => Len(certificates') = Len(certificates) + 1
          /\ \A i \in DOMAIN certificates :
                /\ i \in DOMAIN certificates'
                /\ [certificates'[i] EXCEPT !.revoked = FALSE]
                      = [certificates[i] EXCEPT !.revoked = FALSE]]_vars

C6_Witness ==
    /\ lastTx.op = "issueCertificate"
    /\ lastTx.ret = 1
    /\ Len(certificates) = 2

\* C7: in every reachable state activeCertificates equals the number of
\* certificates whose revoked flag is false.
C7_ActiveCertificatesCount == activeCertificates = Cardinality(ActiveCertIds)

C7_Witness ==
    /\ Len(certificates) = 2
    /\ certificates[1].revoked
    /\ ~certificates[2].revoked
    /\ activeCertificates = 1

\* C8: revoking an existing, not yet revoked certificate succeeds exactly when
\* the caller is the certificate's issuer or isSuperAdmin(caller) holds, also
\* when the issuer has been deactivated; any other caller is refused as
\* unauthorized.
C8_RevokeAuthorization ==
    \A s \in Senders, id \in CertIds :
        (certificateExists(id) /\ ~certificates[id + 1].revoked) =>
            IF s = certificates[id + 1].issuer \/ isSuperAdmin(s)
            THEN revokeCertificateRevert(s, id) = ""
            ELSE revokeCertificateRevert(s, id) = "ScholaChain: Only issuer or super admin can revoke"

C8_Witness ==
    /\ lastTx.op = "revokeCertificate"
    /\ certificates[lastTx.args[1] + 1].issuer = lastTx.sender
    /\ ~institutions[lastTx.sender].isActive
    /\ ~isSuperAdmin(lastTx.sender)
    /\ \E id \in CertIds :
          /\ certificateExists(id) /\ ~certificates[id + 1].revoked
          /\ certificates[id + 1].issuer # superAdmin
          /\ institutions[superAdmin].role # SUPER_ADMIN

\* C9: every successful governance mutation is sent by a caller for whom
\* isSuperAdmin(caller) holds at the time of the call.
C9_GovernanceOnlyBySuperAdmin ==
    [][Mined(GovernanceOps) => isSuperAdmin(lastTx'.sender)]_vars

\* C10: in every reachable state every institution with role SUPER_ADMIN has
\* isActive = true.
C10_SuperAdminAlwaysActive ==
    \A a \in Addresses : institutions[a].role = SUPER_ADMIN => institutions[a].isActive

\* the reason with which the call recorded in receipt r reverts in the current state
RevertReason(r) ==
    CASE r.op = "registerInstitution" ->
            registerInstitutionRevert(r.sender, r.args[1], r.args[2], r.args[3])
      [] r.op = "revokeInstitution" -> revokeInstitutionRevert(r.sender, r.args[1])
      [] r.op = "reactivateInstitution" -> reactivateInstitutionRevert(r.sender, r.args[1])
      [] r.op = "updateInstitutionRole" ->
            updateInstitutionRoleRevert(r.sender, r.args[1], r.args[2])
      [] r.op = "setInstitutionStatus" ->
            setInstitutionStatusRevert(r.sender, r.args[1], r.args[2])
      [] r.op = "transferSuperAdmin" -> transferSuperAdminRevert(r.sender, r.args[1])
      [] r.op = "issueCertificate" ->
            issueCertificateRevert(r.sender, r.args[1], r.args[2], r.args[3])
      [] r.op = "revokeCertificate" -> revokeCertificateRevert(r.sender, r.args[1])
      [] OTHER -> "not a transaction"

\* C11: a mutating call that fails a precondition changes nothing and emits no
\* event: every step that changes institutions, the issuer flags, the
\* super-admin pointer, the certificates, a counter or the event log is a
\* call none of whose preconditions failed in the state it was applied to.
C11_FailureChangesNothing ==
    [][chainVars' # chainVars => (lastTx' # lastTx /\ RevertReason(lastTx') = "")]_vars

C11_Witness ==
    /\ \E a \in Accounts : revokeInstitutionRevert(superAdmin, a) = PanicUnderflow
    /\ \E s \in Senders :
          revokeCertificateRevert(s, 0) = "ScholaChain: Certificate already revoked"
    /\ transferSuperAdminRevert(superAdmin, Ministry) = "ScholaChain: Same admin"

\* C12: when the issuer has been deactivated between the client's
\* authorization check (which returned true) and its issue transaction, the
\* transaction fails with "Not authorized issuer" and appends no certificate:
\* the contract evaluates the authorization itself when the transaction runs.
C12_AuthorizationReevaluated ==
    [][(client.pc = "counted" /\ client'.pc = "idle"
            /\ ~canIssueCertificates(ClientAccount))
         => /\ certificates' = certificates
            /\ UNCHANGED chainVars
            /\ client'.result =
                 IssuanceFailure("Contract error: ScholaChain: Not authorized issuer")]_vars

\* the issue was refused by the contract although the client's own check had passed
C12_Witness ==
    /\ client.result = IssuanceFailure("Contract error: ScholaChain: Not authorized issuer")
    /\ ~institutions[ClientAccount].isActive
    /\ lastTx.op \in {"revokeInstitution", "setInstitutionStatus"}

\* C13: transactions submitted concurrently are applied one after the other,
\* each to the state the previous one left.  An issue returns an id that no
\* certificate had before and that the next issue cannot return; once a
\* revocation of a certificate is applied, every other revocation of it that
\* would have succeeded in its place fails with "Certificate already
\* revoked"; once a registration of an address is applied, every other
\* registration of it that would have succeeded in its place fails with
\* "Already registered".
C13_ConcurrentCallsSerialized ==
    [][/\ Mined({"issueCertificate"}) =>
            \A id \in {lastTx'.ret} :
                /\ ~certificateExists(id)
                /\ certificateExists(id)'
                /\ getTotalCertificates' # id
       /\ Mined({"revokeCertificate"}) =>
            \A id \in {lastTx'.args[1]}, s \in Senders :
                revokeCertificateRevert(s, id) = ""
                    => revokeCertificateRevert(s, id)'
                         = "ScholaChain: Certificate already revoked"
       /\ Mined({"registerInstitution"}) =>
            \A a \in {lastTx'.args[1]}, s \in Senders, name \in Names, role \in Role :
                registerInstitutionRevert(s, a, name, role) = ""
                    => registerInstitutionRevert(s, a, name, role)'
                         = "ScholaChain: Already registered"]_vars

\* two certificates were issued, one was revoked, and both its issuer and the
\* super admin, who could each have revoked it, are now refused
C13_Witness ==
    /\ lastTx.op = "revokeCertificate"
    /\ Len(certificates) = 2
    /\ \E s1, s2 \in Senders :
          /\ s1 # s2
          /\ s1 = certificates[lastTx.args[1] + 1].issuer
          /\ _isSuperAdmin(s2)
          /\ revokeCertificateRevert(s1, lastTx.args[1])
               = "ScholaChain: Certificate already revoked"
          /\ revokeCertificateRevert(s2, lastTx.args[1])
               = "ScholaChain: Certificate already revoked"

\* C14: verifyCertificate(id, hash) of an existing certificate returns
\* isValid = (the stored hash is the given one and the certificate is not
\* revoked) with the stored issuer, holder and revoked flag; of an id that was
\* never issued it fails with "Certificate does not exist".  The result is
\* determined by the certificate record alone: no governance transaction
\* changes the result of any verification.
C14_VerifyDependsOnRecordOnly ==
    /\ [](\A id \in CertIds, h \in QueryHashes :
            verifyCertificate(id, h) =
              IF id < Len(certificates)
              THEN [err |-> "",
                    isValid |-> (certificates[id + 1].documentHash = h
                                   /\ ~certificates[id + 1].revoked),
                    issuer |-> certificates[id + 1].issuer,
                    holder |-> certificates[id + 1].holder,
                    isRevoked |-> certificates[id + 1].revoked]
              ELSE [err |-> "ScholaChain: Certificate does not exist"])
    /\ [][Mined(GovernanceOps) =>
            \A id \in CertIds, h \in QueryHashes :
                verifyCertificate(id, h)' = verifyCertificate(id, h)]_vars

\* a certificate whose issuer has since lost the right to issue still verifies
\* against its own hash, and not against another one
C14_Witness ==
    /\ Len(certificates) = 1
    /\ ~canIssueCertificates(certificates[1].issuer)
    /\ lastTx.op \in GovernanceOps
    /\ verifyCertificate(0, certificates[1].documentHash).isValid
    /\ \E h \in QueryHashes : ~verifyCertificate(0, h).isValid
    /\ verifyCertificate(1, HashAA).err = "ScholaChain: Certificate does not exist"

\* C15: transferSuperAdmin(newAdmin) sent by the current super admin succeeds
\* exactly when newAdmin is registered and is not the current super admin.
\* A successful transfer, in one step, leaves the previous admin with role
\* ISSUER and its authorizedIssuers flag set, newAdmin with role SUPER_ADMIN
\* and its flag cleared, and the superAdmin pointer equal to newAdmin; the
\* previous admin can issue afterwards if it is active.
C15_TransferSuperAdmin ==
    /\ [](\A newAdmin \in Addresses :
            transferSuperAdminRevert(superAdmin, newAdmin) = ""
                <=> (institutions[newAdmin].role # NONE /\ newAdmin # superAdmin))
    /\ [][Mined({"transferSuperAdmin"}) =>
            \A previousAdmin \in {superAdmin}, newAdmin \in {lastTx'.args[1]} :
                /\ lastTx'.sender = previousAdmin
                /\ newAdmin # previousAdmin
                /\ institutions[newAdmin].role # NONE
                /\ institutions'[previousAdmin].role = ISSUER
                /\ authorizedIssuers'[previousAdmin]
                /\ institutions'[newAdmin].role = SUPER_ADMIN
                /\ ~authorizedIssuers'[newAdmin]
                /\ superAdmin' = newAdmin
                /\ canIssueCertificates(previousAdmin)'
                     = institutions[previousAdmin].isActive
                /\ ~canIssueCertificates(newAdmin)']_vars

\* the Ministry has handed the role to A and is now an issuer; a further
\* transfer to an unregistered address is refused
C15_Witness ==
    /\ lastTx.op = "transferSuperAdmin"
    /\ lastTx.sender = Ministry
    /\ superAdmin = "A"
    /\ institutions["A"].role = SUPER_ADMIN /\ ~authorizedIssuers["A"]
    /\ institutions[Ministry].role = ISSUER /\ authorizedIssuers[Ministry]
    /\ canIssueCertificates(Ministry)
    /\ transferSuperAdminRevert("A", Outsider) = "ScholaChain: Not registered"

\* C16: a successful revokeInstitution(target) was sent by the superAdmin
\* address to a registered, active institution with role ISSUER; it sets
\* isActive to false and nothing else in the record, clears the target's
\* authorizedIssuers flag and lowers activeIssuers by one.  A target with role
\* SUPER_ADMIN is refused, whoever sends the call.
C16_RevokeInstitution ==
    /\ [][Mined({"revokeInstitution"}) =>
            \A target \in {lastTx'.args[1]} :
                /\ onlySuperAdmin(lastTx'.sender)
                /\ institutions[target].role = ISSUER
                /\ institutions[target].isActive
                /\ institutions' = [institutions EXCEPT ![target].isActive = FALSE]
                /\ authorizedIssuers' = [authorizedIssuers EXCEPT ![target] = FALSE]
                /\ activeIssuers' + 1 = activeIssuers
                /\ superAdmin' = superAdmin /\ totalInstitutions' = totalInstitutions]_vars
    /\ [](\A s \in Senders, a \in Addresses :
            institutions[a].role = SUPER_ADMIN => revokeInstitutionRevert(s, a) # "")

\* an issuer has just been revoked, and revoking an active super admin is refused
C16_Witness ==
    /\ lastTx.op = "revokeInstitution"
    /\ institutions[lastTx.args[1]].role = ISSUER
    /\ ~institutions[lastTx.args[1]].isActive
    /\ ~authorizedIssuers[lastTx.args[1]]
    /\ \E a \in Accounts :
          /\ institutions[a].role = SUPER_ADMIN
          /\ revokeInstitutionRevert(superAdmin, a) = "ScholaChain: Can only revoke issuers"

\* C17: registerInstitution succeeds if and only if the sender is the
\* superAdmin address, the address is not zero, the name is not empty, the
\* role is ISSUER or SUPER_ADMIN and the address has role NONE.  A successful
\* call creates the institution active with the requested role, raises
\* totalInstitutions by one and raises activeIssuers by one exactly when the
\* role is ISSUER; the same call sent again fails with "Already registered".
C17_RegisterInstitution ==
    /\ [](\A s \in Senders, a \in Addresses, name \in Names, role \in Role :
            registerInstitutionRevert(s, a, name, role) = ""
                <=> /\ s = superAdmin
                    /\ a # ZeroAddress
                    /\ name # ""
                    /\ role \in {ISSUER, SUPER_ADMIN}
                    /\ institutions[a].role = NONE)
    /\ [][Mined({"registerInstitution"}) =>
            \A a \in {lastTx'.args[1]}, name \in {lastTx'.args[2]},
               role \in {lastTx'.args[3]}, s \in {lastTx'.sender} :
                /\ registerInstitutionRevert(s, a, name, role) = ""
                /\ institutions'[a].isActive
                /\ institutions'[a].role = role
                /\ institutions'[a].name = name
                /\ \A b \in Addresses \ {a} : institutions'[b] = institutions[b]
                /\ totalInstitutions' = totalInstitutions + 1
                /\ activeIssuers' = activeIssuers + (IF role = ISSUER THEN 1 ELSE 0)
                /\ authorizedIssuers'[a] = (role = ISSUER)
                /\ registerInstitutionRevert(s, a, name, role)'
                     = "ScholaChain: Already registered"]_vars

\* A has been registered as an issuer and a repeated registration is refused
C17_Witness ==
    /\ lastTx.op = "registerInstitution"
    /\ lastTx.args[3] = ISSUER
    /\ institutions[lastTx.args[1]].role = ISSUER
    /\ institutions[lastTx.args[1]].isActive
    /\ totalInstitutions = 2
    /\ activeIssuers = 1
    /\ registerInstitutionRevert(superAdmin, lastTx.args[1], lastTx.args[2], ISSUER)
         = "ScholaChain: Already registered"

Registered == {a \in Addresses : institutions[a].role # NONE}

\* C18: an address whose role is not NONE keeps a role other than NONE in
\* every later state, and in every reachable state totalInstitutions is the
\* number of addresses whose role is not NONE (1 after deployment).
C18_RegistrationPermanent ==
    /\ [][\A a \in Addresses :
            institutions[a].role # NONE => institutions'[a].role # NONE]_vars
    /\ [](totalInstitutions = Cardinality(Registered))

\* both accounts are registered, A has been through a role change and a
\* deactivation, and a role change to NONE is refused
C18_Witness ==
    /\ lastTx.op = "updateInstitutionRole"
    /\ lastTx.args[1] = "A"
    /\ ~institutions["A"].isActive
    /\ Registered = {Ministry, "A"}
    /\ totalInstitutions = 2
    /\ updateInstitutionRoleRevert(superAdmin, "A", NONE) = "ScholaChain: Invalid role"

\* C19: right after issueCertificate, verifyCertificate of the new id with the
\* issued hash returns isValid = true; right after revokeCertificate,
\* verifyCertificate with the stored hash returns isValid = false and
\* isRevoked = true, and the same revocation sent again fails with
\* "Certificate already revoked"; a revoked certificate is refused to every
\* sender, so its record and activeCertificates stay as they are.
C19_IssueVerifyRevokeRoundTrip ==
    /\ [][Mined({"issueCertificate"}) =>
            \A id \in {lastTx'.ret}, h \in {lastTx'.args[1]}, s \in {lastTx'.sender},
               holder \in {lastTx'.args[3]} :
                verifyCertificate(id, h)'
                  = [err |-> "", isValid |-> TRUE, issuer |-> s,
                     holder |-> holder, isRevoked |-> FALSE]]_vars
    /\ [][Mined({"revokeCertificate"}) =>
            \A id \in {lastTx'.args[1]}, s \in {lastTx'.sender} :
                /\ verifyCertificate(id, certificates[id + 1].documentHash).isValid
                /\ ~verifyCertificate(id, certificates[id + 1].documentHash)'.isValid
                /\ verifyCertificate(id, certificates[id + 1].documentHash)'.isRevoked
                /\ activeCertificates' = activeCertificates - 1
                /\ revokeCertificateRevert(s, id)'
                     = "ScholaChain: Certificate already revoked"]_vars
    /\ [](\A id \in CertIds, s \in Senders :
            (certificateExists(id) /\ certificates[id + 1].revoked)
                => revokeCertificateRevert(s, id)
                     \in {"ScholaChain: Certificate already revoked",
                          "ScholaChain: Only issuer or super admin can revoke"})

\* certificate 0 was issued and then revoked: it no longer verifies and a
\* second revocation by the same sender is refused, while certificate 1 still
\* verifies
C19_Witness ==
    /\ lastTx.op = "revokeCertificate"
    /\ lastTx.args[1] = 0
    /\ Len(certificates) = 2
    /\ ~verifyCertificate(0, certificates[1].documentHash).isValid
    /\ verifyCertificate(0, certificates[1].documentHash).isRevoked
    /\ verifyCertificate(1, certificates[2].documentHash).isValid
    /\ activeCertificates = 1
    /\ revokeCertificateRevert(lastTx.sender, 0) = "ScholaChain: Certificate already revoked"

\* the states of the reference scenario: after deployment, after M registered
\* A as issuer, after A issued certificate 0 to H, after M revoked A, and
\* after A revoked certificate 0
ScenarioMinistry ==
    /\ superAdmin = Ministry
    /\ institutions[Ministry].role = SUPER_ADMIN
    /\ institutions[Ministry].isActive
    /\ ~authorizedIssuers[Ministry]

ScenarioGenesis ==
    /\ ScenarioMinistry
    /\ institutions["A"].role = NONE
    /\ totalInstitutions = 1 /\ activeIssuers = 0
    /\ certificates = <<>> /\ totalCertificates = 0 /\ activeCertificates = 0

ScenarioIssuerActive ==
    /\ ScenarioMinistry
    /\ institutions["A"].role = ISSUER /\ institutions["A"].isActive
    /\ authorizedIssuers["A"]
    /\ totalInstitutions = 2 /\ activeIssuers = 1

ScenarioIssuerRevoked ==
    /\ ScenarioMinistry
    /\ institutions["A"].role = ISSUER /\ ~institutions["A"].isActive
    /\ ~authorizedIssuers["A"]
    /\ totalInstitutions = 2 /\ activeIssuers = 0

ScenarioCertificate(revoked) ==
    /\ Len(certificates) = 1
    /\ certificates[1].issuer = "A" /\ certificates[1].holder = Holder
    /\ certificates[1].documentHash = HashAA
    /\ certificates[1].revoked = revoked
    /\ totalCertificates = 1
    /\ activeCertificates = (IF revoked THEN 0 ELSE 1)

ScenarioRegistered ==
    /\ ScenarioIssuerActive
    /\ certificates = <<>> /\ totalCertificates = 0 /\ activeCertificates = 0

ScenarioIssued == ScenarioIssuerActive /\ ScenarioCertificate(FALSE)

ScenarioDeactivated == ScenarioIssuerRevoked /\ ScenarioCertificate(FALSE)

ScenarioCertificateRevoked == ScenarioIssuerRevoked /\ ScenarioCertificate(TRUE)

\* C20: the reference scenario, step by step.  From the deployed state, M's
\* registration of A as ISSUER leaves A active with activeIssuers = 1 and
\* totalInstitutions = 2; A's issue to H then returns id 0 with
\* totalCertificates = activeCertificates = 1; M's revokeInstitution(A) then
\* leaves A inactive, activeIssuers = 0 and certificate 0 untouched; in that
\* state every issue by A fails with "Not authorized issuer" while A's
\* revocation of certificate 0 is accepted, and applying it leaves
\* revoked = true, activeCertificates = 0 and verifyCertificate(0, issued
\* hash) = (isValid false, isRevoked true).
C20_ReferenceScenario ==
    /\ [][(ScenarioGenesis /\ Mined({"registerInstitution"})
             /\ lastTx'.sender = Ministry /\ lastTx'.args[1] = "A"
             /\ lastTx'.args[3] = ISSUER)
           => ScenarioRegistered']_vars
    /\ [][(ScenarioRegistered /\ Mined({"issueCertificate"})
             /\ lastTx'.sender = "A" /\ lastTx'.args[1] = HashAA
             /\ lastTx'.args[3] = Holder)
           => (lastTx'.ret = 0 /\ ScenarioIssued')]_vars
    /\ [][(ScenarioIssued /\ Mined({"revokeInstitution"})
             /\ lastTx'.sender = Ministry /\ lastTx'.args[1] = "A")
           => (certificates' = certificates /\ ScenarioDeactivated')]_vars
    /\ [](ScenarioDeactivated =>
            /\ \A h \in DocHashes, cid \in CIDs, to \in Addresses :
                  issueCertificateRevert("A", h, cid, to)
                    = "ScholaChain: Not authorized issuer"
            /\ revokeCertificateRevert("A", 0) = "")
    /\ [][(ScenarioDeactivated /\ Mined({"revokeCertificate"})
             /\ lastTx'.sender = "A" /\ lastTx'.args[1] = 0)
           => ScenarioCertificateRevoked']_vars
    /\ [](ScenarioCertificateRevoked =>
            verifyCertificate(0, HashAA)
              = [err |-> "", isValid |-> FALSE, issuer |-> "A",
                 holder |-> Holder, isRevoked |-> TRUE])

\* the end of the scenario: the revoked issuer A has just revoked certificate 0
C20_Witness ==
    /\ ScenarioCertificateRevoked
    /\ lastTx.op = "revokeCertificate"
    /\ lastTx.sender = "A"
    /\ lastTx.args[1] = 0

\* C21: sending a transaction again does not repeat or absorb it uniformly.
\* After a registration is applied the same call reverts with "Already
\* registered".  After an issue is applied the same call is still accepted,
\* and when it is applied next it appends a second certificate with the id
\* one larger and raises totalCertificates and activeCertificates again.
C21_ResubmissionNotIdempotent ==
    /\ [][Mined({"registerInstitution"}) =>
            \A s \in {lastTx'.sender}, a \in {lastTx'.args[1]},
               name \in {lastTx'.args[2]}, role \in {lastTx'.args[3]} :
                registerInstitutionRevert(s, a, name, role)'
                  = "ScholaChain: Already registered"]_vars
    /\ [][Mined({"issueCertificate"}) =>
            \A s \in {lastTx'.sender}, h \in {lastTx'.args[1]},
               cid \in {lastTx'.args[2]}, to \in {lastTx'.args[3]} :
                issueCertificateRevert(s, h, cid, to)' = ""]_vars
    /\ [][(lastTx.op = "issueCertificate" /\ Mined({"issueCertificate"})
             /\ lastTx'.sender = lastTx.sender /\ lastTx'.args = lastTx.args)
           => /\ lastTx'.ret = lastTx.ret + 1
              /\ Len(certificates') = Len(certificates) + 1
              /\ SubSeq(certificates', 1, Len(certificates)) = certificates
              /\ certificates'[lastTx'.ret + 1].documentHash
                   = certificates[lastTx.ret + 1].documentHash
              /\ totalCertificates' = totalCertificates + 1
              /\ activeCertificates' = activeCertificates + 1]_vars

\* the same issue was applied twice in a row: two certificates with the same
\* content and different ids
C21_Witness ==
    /\ lastTx.op = "issueCertificate"
    /\ lastTx.ret = 1
    /\ Len(certificates) = 2
    /\ certificates[1] = certificates[2]
    /\ totalCertificates = 2
    /\ activeCertificates = 2

\* C22: an issued certificate stays at its id with the documentHash, ipfsCID,
\* issuer, holder, issuedAt and certificateType it was issued with; the only
\* field a step changes is revoked, and only a revokeCertificate of that id
\* changes it.
C22_CertificateImmutable ==
    [][\A i \in DOMAIN certificates :
          /\ i \in DOMAIN certificates'
          /\ [certificates'[i] EXCEPT !.revoked = certificates[i].revoked] = certificates[i]
          /\ certificates'[i].revoked # certificates[i].revoked
               => (Mined({"revokeCertificate"}) /\ lastTx'.args[1] = i - 1)]_vars

\* certificate 0 has been revoked, certificate 1 has been issued after it, and
\* a governance transaction has since taken the right to issue from its issuer
C22_Witness ==
    /\ Len(certificates) = 2
    /\ certificates[1].revoked
    /\ ~certificates[2].revoked
    /\ lastTx.op \in GovernanceOps
    /\ ~canIssueCertificates(certificates[2].issuer)

\* C23: a governance transaction leaves the certificates and the two
\* certificate counters as they were, and a certificate transaction leaves
\* the institutions, the issuer flags, the superAdmin pointer,
\* totalInstitutions and activeIssuers as they were.
C23_RegistriesDoNotWriteEachOther ==
    [][/\ Mined(GovernanceOps) =>
            /\ certificates' = certificates
            /\ totalCertificates' = totalCertificates
            /\ activeCertificates' = activeCertificates
       /\ Mined({"issueCertificate", "revokeCertificate"}) =>
            /\ institutions' = institutions
            /\ authorizedIssuers' = authorizedIssuers
            /\ superAdmin' = superAdmin
            /\ totalInstitutions' = totalInstitutions
            /\ activeIssuers' = activeIssuers]_vars

\* an issuer has just been revoked and its certificate is still active; the
\* earlier issue had left the registry with two institutions and one issuer
C23_Witness ==
    /\ lastTx.op = "revokeInstitution"
    /\ Len(certificates) = 1
    /\ certificates[1].issuer = lastTx.args[1]
    /\ ~certificates[1].revoked
    /\ activeCertificates = 1
    /\ totalInstitutions = 2

\* C24: in every reachable state a revokeInstitution, and a
\* setInstitutionStatus(false), sent by the super admin to a registered,
\* active institution with role ISSUER does not fail: no condition outside the
\* listed preconditions, such as activeIssuers being 0 when it has to be
\* decremented, stops it.
C24_PreconditionsSuffice ==
    \A a \in Addresses :
        (institutions[a].role = ISSUER /\ institutions[a].isActive)
            => /\ revokeInstitutionRevert(superAdmin, a) = ""
               /\ setInstitutionStatusRevert(superAdmin, a, FALSE) = ""

\* C25: updateInstitutionRole changes the target's authorizedIssuers flag or
\* the activeIssuers counter only when the target is active and the role
\* change enters or leaves ISSUER; for an inactive target, and for a change
\* that does not cross the ISSUER boundary, both stay as they were.
C25_UpdateRoleAdjustsOnlyActive ==
    [][Mined({"updateInstitutionRole"}) =>
          \A a \in {lastTx'.args[1]}, newRole \in {lastTx'.args[2]} :
              (authorizedIssuers'[a] # authorizedIssuers[a] \/ activeIssuers' # activeIssuers)
                  => /\ institutions[a].isActive
                     /\ (institutions[a].role = ISSUER) # (newRole = ISSUER)]_vars

\* C26: a successful reactivateInstitution was sent by the superAdmin address
\* to a registered, inactive institution with role ISSUER.  A successful
\* revokeInstitution starts from a target that is active, flagged in
\* authorizedIssuers and able to issue, and a reactivateInstitution of the
\* same target applied right after it undoes it: the state it leaves is one
\* from which the revocation leads back to the state in between, with the
\* target active, flagged, able to issue and activeIssuers one higher.
C26_ReactivateUndoesRevoke ==
    /\ [][Mined({"reactivateInstitution"}) =>
            \A a \in {lastTx'.args[1]} :
                /\ onlySuperAdmin(lastTx'.sender)
                /\ institutions[a].role = ISSUER
                /\ ~institutions[a].isActive]_vars
    /\ [][Mined({"revokeInstitution"}) =>
            \A a \in {lastTx'.args[1]} :
                /\ institutions[a].isActive
                /\ authorizedIssuers[a]
                /\ canIssueCertificates(a)
                /\ activeIssuers = activeIssuers' + 1]_vars
    /\ [][(lastTx.op = "revokeInstitution" /\ Mined({"reactivateInstitution"})
             /\ lastTx'.args[1] = lastTx.args[1])
           => \A a \in {lastTx.args[1]} :
                /\ institutions'[a].isActive
                /\ authorizedIssuers'[a]
                /\ canIssueCertificates(a)'
                /\ activeIssuers' = activeIssuers + 1
                /\ institutions = [institutions' EXCEPT ![a].isActive = FALSE]
                /\ authorizedIssuers = [authorizedIssuers' EXCEPT ![a] = FALSE]
                /\ superAdmin' = superAdmin
                /\ totalInstitutions' = totalInstitutions]_vars

\* an issuer has just been reactivated and can issue again
C26_Witness ==
    /\ lastTx.op = "reactivateInstitution"
    /\ institutions[lastTx.args[1]].role = ISSUER
    /\ institutions[lastTx.args[1]].isActive
    /\ authorizedIssuers[lastTx.args[1]]
    /\ canIssueCertificates(lastTx.args[1])
    /\ activeIssuers = 1
    /\ reactivateInstitutionRevert(superAdmin, lastTx.args[1])
         = "ScholaChain: Institution already active"

\* the names of the events each function emits, in emission order
ListedEvents(op) ==
    CASE op = "registerInstitution" -> <<"InstitutionRegistered">>
      [] op = "revokeInstitution" -> <<"InstitutionStatusChanged", "InstitutionRevoked">>
      [] op = "reactivateInstitution" -> <<"InstitutionStatusChanged">>
      [] op = "updateInstitutionRole" -> <<"InstitutionUpdated">>
      [] op = "setInstitutionStatus" -> <<"InstitutionStatusChanged">>
      [] op = "transferSuperAdmin" ->
            <<"InstitutionUpdated", "InstitutionUpdated", "SuperAdminTransferred">>
      [] op = "issueCertificate" -> <<"CertificateIssued">>
      [] op = "revokeCertificate" -> <<"CertificateRevoked">>
      [] OTHER -> <<>>

\* C27: the event log only grows at its end.  When it grows, the events added
\* are those of one call that did not fail, with the names its function lists
\* and in that order: InstitutionStatusChanged(false) then
\* InstitutionRevoked(reason) for revokeInstitution, two InstitutionUpdated
\* then SuperAdminTransferred for transferSuperAdmin, one event for every
\* other function.  Every call that changes contract state adds its events,
\* and a call that fails adds none.
C27_EventLogAppendOnly ==
    /\ [][/\ Len(eventLog') >= Len(eventLog)
          /\ SubSeq(eventLog', 1, Len(eventLog)) = eventLog]_vars
    /\ [][eventLog' # eventLog =>
            /\ RevertReason(lastTx') = ""
            /\ SubSeq(eventLog', Len(eventLog) + 1, Len(eventLog')) = lastTx'.events
            /\ [i \in DOMAIN lastTx'.events |-> lastTx'.events[i].event]
                 = ListedEvents(lastTx'.op)
            /\ lastTx'.op = "revokeInstitution" =>
                 /\ lastTx'.events[1].newStatus = FALSE
                 /\ lastTx'.events[2].reason = lastTx'.args[2]]_vars
    /\ [][<<govVars, certVars>>' # <<govVars, certVars>> => eventLog' # eventLog]_vars

\* the log after a registration, a revocation and a reactivation
C27_Witness ==
    /\ lastTx.op = "reactivateInstitution"
    /\ [i \in DOMAIN eventLog |-> eventLog[i].event]
         = <<"InstitutionRegistered", "InstitutionRegistered",
             "InstitutionStatusChanged", "InstitutionRevoked", "InstitutionStatusChanged">>
    /\ eventLog[3].newStatus = FALSE
    /\ eventLog[5].newStatus = TRUE

\* C28: every InstitutionUpdated event emitted by updateInstitutionRole or
\* transferSuperAdmin names as previousRole the role its address had right
\* before the call and as newRole the role it has right after.
C28_InstitutionUpdatedTruthful ==
    [][Mined({"updateInstitutionRole", "transferSuperAdmin"}) =>
          \A i \in DOMAIN lastTx'.events :
              lastTx'.events[i].event = "InstitutionUpdated" =>
                  /\ lastTx'.events[i].previousRole
                       = institutions[lastTx'.events[i].institutionAddress].role
                  /\ lastTx'.events[i].newRole
                       = institutions'[lastTx'.events[i].institutionAddress].role]_vars

\* C29: in every reachable state the service-layer checks answer true only
\* for the address that is the registry's super admin:
\* AdminService.isMinistryOfEducation(addr) and
\* GovernanceService.isMinistryOfEducation() for account addr imply that addr
\* is the superAdmin address of the governance contract.
C29_ServiceAgreesWithRegistry ==
    \A addr \in Addresses :
        /\ \A ready \in BOOLEAN :
              AdminService_isMinistryOfEducation(addr, ready) => addr = superAdmin
        /\ GovernanceService_isMinistryOfEducation(addr) => addr = superAdmin

\* C30: when the issue transaction of the client is applied, the id the
\* client layer reported for it is the id the registry assigns to the
\* certificate: the id issueCertificateReal returns, and the id that
\* prepareCertificateIssuance predicted for the same certificate data, whatever
\* other issuers did between the read of the count and the transaction.
C30_ReportedIdIsAssignedId ==
    [][(client.pc = "counted" /\ client'.pc = "idle" /\ client'.result.success)
         => /\ client'.result.certificateId = lastTx'.ret
            /\ (prepared.success /\ prepared.requiredParameters = ClientData)
                  => prepared.certificateId = lastTx'.ret]_vars

====
